---- MODULE Spec2Model ----
(***************************************************************************)
(* volcano: the leader-elected controller supervisor                       *)
(* (cmd/controllers/app/server.go) and the ssh job plugin (package ssh,    *)
(* unnamed/part_000).                                                      *)
(*                                                                         *)
(* Spec     : N supervisor processes, each executing Run(opt), contending  *)
(*            for the lock "vc-controllers" under a global clock.          *)
(* FairSpec : Spec with the fairness of a process that keeps executing.    *)
(* SpecSSH  : sequential invocations of the ssh plugin's job hooks.        *)
(***************************************************************************)
EXTENDS Integers, Sequences, FiniteSets, TLC

(***************************************************************************)
(* Bounds of the model.                                                    *)
(***************************************************************************)
\* number of supervisor processes contending for the lock
NumInst == 2
\* the clock stops advancing here (seconds)
MaxTime == 11
\* reconciliation steps counted, over all processes
MaxSteps == 1
\* seconds the clock advances in one Tick
TickStep == 5
\* job objects handed to the ssh plugin
NumJobs == 2
\* callers of the plugin's hooks
NumCallers == 2
\* hook invocations (OnJobAdd and OnJobDelete), over all jobs
MaxCalls == 3

(***************************************************************************)
(* server.go:51-55                                                         *)
(***************************************************************************)
leaseDuration == 15

renewDeadline_TooLong == leaseDuration + 5
renewDeadline == 10

retryPeriod == 5

Inst == 1 .. NumInst

Jobs == 1 .. NumJobs

Callers == 1 .. NumCallers

\* the (name, UID) pairs of the job objects; strings are sequences of
\* tokens, "-" is the separator secretName inserts.  job.Name and job.UID
\* are strings the plugin takes as they are (part_000:185): it tests
\* neither their form nor their length, so either may carry "-" and UIDs
\* of different lengths occur.  The pairs differ in the UID only (with
\* UIDs of one length and of two), in the name only, and in both.
JobIdents ==
    { [name |-> <<"a">>, uid |-> <<"u">>],
      [name |-> <<"a">>, uid |-> <<"b", "-", "u">>],
      [name |-> <<"a">>, uid |-> <<"b", "-", "v">>],
      [name |-> <<"a", "-", "b">>, uid |-> <<"u">>] }

\* job, queue, garbage-collector, pod-group (server.go:146-149)
Controllers == {"job", "queue", "gc", "podgroup"}

NoHolder == 0

VARIABLES
    now,          \* the clock, in seconds
    enableLE,     \* opt.EnableLeaderElection of each process
    pc,           \* where each process is in Run
    err,          \* the value Run returned: "none" while it has not returned
    failed,       \* the construction step of Run that failed, "none" if none has
    lock,         \* the lock object "vc-controllers": holder and renew time
    nextTry,      \* when the elector of each process next reads the lock
    lastRenew,    \* when the elector of each process last wrote the lock
    ctxDone,      \* whether the context handed to run(ctx) is cancelled
    runner,       \* the closure returned by startControllers: none, blocked,
                  \* returned, killed
    worker,       \* the goroutine of each controller: idle, running, stopped,
                  \* killed
    steps,        \* reconciliation steps taken by the workers of each process
    lockTouched,  \* history: the process has read or written the lock
    everAcquired, \* history: the process has acquired the lease
    onLoseFired,  \* history: OnStoppedLeading has been called
    \* ---- the ssh plugin and the objects its hooks work on ----
    jobName,      \* job.Name of each job object
    jobUID,       \* job.UID of each job object
    marker,       \* job.Status.ControlledResources["plugin-ssh"] ("" when absent)
    secrets,      \* names of the secrets that exist in the job namespace
    opc,          \* where each caller is in OnJobAdd, "idle" outside a call
    ojob,         \* the job of the call a caller is in, or was last in
    ret,          \* what the last hook call of each caller returned
    wrote,        \* the current call's CreateSecret succeeded
    adds,         \* history: OnJobAdd invocations per job
    gens,         \* history: generateRsaKey calls per job
    creates,      \* history: CreateSecret calls per job
    created,      \* history: CreateSecret calls that succeeded, per job
    dels,         \* history: OnJobDelete invocations per job
    \* ---- the plugin object, the pod of OnPodCreate, the job's tasks ----
    plugArgs,       \* sp.pluginArguments: the flag tokens given to New
    plugState,      \* "unbuilt" before New has run, "built" after
    noRoot,         \* sp.noRoot
    sshKeyFilePath, \* sp.sshKeyFilePath
    podVolumes,     \* pod.Spec.Volumes
    podMounts,      \* pod.Spec.Containers[i].VolumeMounts, per container
    podCalls,       \* history: OnPodCreate invocations on the pod
    podRet,         \* what the last OnPodCreate returned
    tasks,          \* job.Spec.Tasks
    config,         \* the text generateSSHConfig returned
    cfgDone         \* generateSSHConfig has been called

supVars == <<now, enableLE, pc, err, failed, lock, nextTry, lastRenew, ctxDone, runner,
             worker, steps, lockTouched, everAcquired, onLoseFired>>

sshVars == <<jobName, jobUID, marker, secrets, opc, ojob, ret, wrote,
             adds, gens, creates, created, dels>>

plugVars == <<plugArgs, plugState, noRoot, sshKeyFilePath, podVolumes, podMounts,
              podCalls, podRet, tasks, config, cfgDone>>

vars == <<supVars, sshVars, plugVars>>

Terminated == {"returned", "exited", "panicked"}

\* the process is gone: os.Exit under klog.Fatalf, or an unrecovered panic
ProcessDead(i) == pc[i] \in {"exited", "panicked"}

----------------------------------------------------------------------------
(***************************************************************************)
(* Run, server.go:78-137, one action per statement that can fail or block. *)
(***************************************************************************)

\* return err / return fmt.Errorf(...)
ReturnErr(i, step, e) ==
    /\ pc' = [pc EXCEPT ![i] = "returned"]
    /\ err' = [err EXCEPT ![i] = e]
    /\ failed' = [failed EXCEPT ![i] = step]

Goto(i, p) ==
    /\ pc' = [pc EXCEPT ![i] = p]
    /\ UNCHANGED <<err, failed>>

\* server.go:79-82
buildConfig(i) ==
    /\ pc[i] = "buildConfig"
    /\ \E ok \in BOOLEAN :
         IF ok THEN Goto(i, "healthz") ELSE ReturnErr(i, "config", "config")
    /\ UNCHANGED <<now, enableLE, lock, nextTry, lastRenew, ctxDone, runner, worker, steps,
                   lockTouched, everAcquired, onLoseFired>>
    /\ UNCHANGED <<sshVars, plugVars>>

StartHealthz_IgnoreError(i) ==
    /\ pc[i] = "healthz"
    /\ \E ok \in BOOLEAN :
         /\ pc' = [pc EXCEPT ![i] = "startControllers"]
         /\ failed' = [failed EXCEPT ![i] = IF ok THEN "none" ELSE "healthz"]
         /\ UNCHANGED err
    /\ UNCHANGED <<now, enableLE, lock, nextTry, lastRenew, ctxDone, runner, worker, steps,
                   lockTouched, everAcquired, onLoseFired>>
    /\ UNCHANGED <<sshVars, plugVars>>

\* server.go:84-86
StartHealthz(i) ==
    /\ pc[i] = "healthz"
    /\ \E ok \in BOOLEAN :
         IF ok THEN Goto(i, "startControllers")
               ELSE ReturnErr(i, "healthz", "healthz")
    /\ UNCHANGED <<now, enableLE, lock, nextTry, lastRenew, ctxDone, runner, worker, steps,
                   lockTouched, everAcquired, onLoseFired>>
    /\ UNCHANGED <<sshVars, plugVars>>

\* server.go:88 and 139-149: the clients are built with NewForConfigOrDie,
\* which panics on failure; no goroutine is started here.
startControllers(i) ==
    /\ pc[i] = "startControllers"
    /\ \E ok \in BOOLEAN :
         IF ok THEN Goto(i, "branch")
               ELSE /\ pc' = [pc EXCEPT ![i] = "panicked"]
                    /\ failed' = [failed EXCEPT ![i] = "client"]
                    /\ UNCHANGED err
    /\ UNCHANGED <<now, enableLE, lock, nextTry, lastRenew, ctxDone, runner, worker, steps,
                   lockTouched, everAcquired, onLoseFired>>
    /\ UNCHANGED <<sshVars, plugVars>>

\* server.go:151-156: the four go statements, then the closure blocks on
\* <-ctx.Done().
run(i) ==
    /\ runner[i] = "none"
    /\ worker' = [worker EXCEPT ![i] = [w \in Controllers |-> "running"]]
    /\ runner' = [runner EXCEPT ![i] = "blocked"]

RunWithoutElection_Always(i) ==
    /\ pc[i] = "branch"
    /\ run(i)
    /\ Goto(i, "inRun")
    /\ UNCHANGED <<now, enableLE, lock, nextTry, lastRenew, ctxDone, steps,
                   lockTouched, everAcquired, onLoseFired>>
    /\ UNCHANGED <<sshVars, plugVars>>

\* server.go:90-91: run(context.TODO()); that context is never cancelled, so
\* the call does not return and line 92 is not reached.
RunWithoutElection(i) ==
    /\ pc[i] = "branch"
    /\ ~enableLE[i]
    /\ run(i)
    /\ Goto(i, "inRun")
    /\ UNCHANGED <<now, enableLE, lock, nextTry, lastRenew, ctxDone, steps,
                   lockTouched, everAcquired, onLoseFired>>
    /\ UNCHANGED <<sshVars, plugVars>>

NewLeaderElectionClient_Always(i) ==
    /\ pc[i] = "branch"
    /\ \E ok \in BOOLEAN :
         IF ok THEN Goto(i, "hostname") ELSE ReturnErr(i, "client", "client")
    /\ UNCHANGED <<now, enableLE, lock, nextTry, lastRenew, ctxDone, runner, worker, steps,
                   lockTouched, everAcquired, onLoseFired>>
    /\ UNCHANGED <<sshVars, plugVars>>

\* server.go:90 (flag set) and 95-98
NewLeaderElectionClient(i) ==
    /\ pc[i] = "branch"
    /\ enableLE[i]
    /\ \E ok \in BOOLEAN :
         IF ok THEN Goto(i, "hostname") ELSE ReturnErr(i, "client", "client")
    /\ UNCHANGED <<now, enableLE, lock, nextTry, lastRenew, ctxDone, runner, worker, steps,
                   lockTouched, everAcquired, onLoseFired>>
    /\ UNCHANGED <<sshVars, plugVars>>

\* server.go:105-110: the identity is hostname_uuid, distinct per process
\* (here: the process index)
Hostname(i) ==
    /\ pc[i] = "hostname"
    /\ \E ok \in BOOLEAN :
         IF ok THEN Goto(i, "newLock")
               ELSE ReturnErr(i, "hostname", "unable to get hostname")
    /\ UNCHANGED <<now, enableLE, lock, nextTry, lastRenew, ctxDone, runner, worker, steps,
                   lockTouched, everAcquired, onLoseFired>>
    /\ UNCHANGED <<sshVars, plugVars>>

NewResourceLock_ReturnNil(i) ==
    /\ pc[i] = "newLock"
    /\ \E ok \in BOOLEAN :
         IF ok THEN /\ Goto(i, "acquire")
                    /\ nextTry' = [nextTry EXCEPT ![i] = now]
               ELSE /\ ReturnErr(i, "lock", "nil")
                    /\ UNCHANGED nextTry
    /\ UNCHANGED <<now, enableLE, lock, lastRenew, ctxDone, runner, worker, steps,
                   lockTouched, everAcquired, onLoseFired>>
    /\ UNCHANGED <<sshVars, plugVars>>

\* server.go:112-122: resourcelock.New builds the lock handle locally (no
\* request to the lock object); on success RunOrDie (124) starts acquiring.
NewResourceLock(i) ==
    /\ pc[i] = "newLock"
    /\ \E ok \in BOOLEAN :
         IF ok THEN /\ Goto(i, "acquire")
                    /\ nextTry' = [nextTry EXCEPT ![i] = now]
               ELSE /\ ReturnErr(i, "lock", "couldn't create resource lock")
                    /\ UNCHANGED nextTry
    /\ UNCHANGED <<now, enableLE, lock, lastRenew, ctxDone, runner, worker, steps,
                   lockTouched, everAcquired, onLoseFired>>
    /\ UNCHANGED <<sshVars, plugVars>>

----------------------------------------------------------------------------
(***************************************************************************)
(* leaderelection.RunOrDie, server.go:124-135.  The elector is library     *)
(* code outside the two source files; it is modelled from the lease        *)
(* protocol the specification describes (sections 3 and 4.1): a held lease *)
(* is valid for leaseDuration after its last renewal, the holder forfeits  *)
(* when it has not renewed within renewDeadline, everybody polls every     *)
(* retryPeriod.  Clocks are synchronised and a process acts on an expired  *)
(* deadline before the clock advances again.                               *)
(***************************************************************************)

LeaseValid == lock.holder # NoHolder /\ now < lock.renewTime + leaseDuration

\* a non-holder polls the lock; it takes the lease when there is none or the
\* held one has expired, and the write succeeds
TryAcquire(i) ==
    /\ pc[i] = "acquire"
    /\ now >= nextTry[i]
    /\ lockTouched' = [lockTouched EXCEPT ![i] = TRUE]
    /\ \E ok \in BOOLEAN :
         IF ok /\ ~LeaseValid
         THEN /\ lock' = [holder |-> i, renewTime |-> now]
              /\ lastRenew' = [lastRenew EXCEPT ![i] = now]
              /\ everAcquired' = [everAcquired EXCEPT ![i] = TRUE]
              /\ Goto(i, "acquired")
              /\ UNCHANGED nextTry
         ELSE /\ nextTry' = [nextTry EXCEPT ![i] = now + retryPeriod]
              /\ UNCHANGED <<lock, lastRenew, everAcquired, pc, err, failed>>
    /\ UNCHANGED <<now, enableLE, ctxDone, runner, worker, steps, onLoseFired>>
    /\ UNCHANGED <<sshVars, plugVars>>

\* Callbacks.OnStartedLeading: run (server.go:130)
OnStartedLeading(i) ==
    /\ pc[i] = "acquired"
    /\ run(i)
    /\ Goto(i, "leading")
    /\ nextTry' = [nextTry EXCEPT ![i] = now + retryPeriod]
    /\ UNCHANGED <<now, enableLE, lock, lastRenew, ctxDone, steps,
                   lockTouched, everAcquired, onLoseFired>>
    /\ UNCHANGED <<sshVars, plugVars>>

RenewDue(i) == lastRenew[i] + renewDeadline

\* the holder renews every retryPeriod; a renewal can fail (the lock object
\* is unreachable)
Renew(i) ==
    /\ pc[i] = "leading"
    /\ now >= nextTry[i]
    /\ now < RenewDue(i)
    /\ \E ok \in BOOLEAN :
         IF ok /\ lock.holder = i
         THEN /\ lock' = [holder |-> i, renewTime |-> now]
              /\ lastRenew' = [lastRenew EXCEPT ![i] = now]
         ELSE UNCHANGED <<lock, lastRenew>>
    /\ nextTry' = [nextTry EXCEPT ![i] = now + retryPeriod]
    /\ UNCHANGED <<now, enableLE, pc, err, failed, ctxDone, runner, worker, steps,
                   lockTouched, everAcquired, onLoseFired>>
    /\ UNCHANGED <<sshVars, plugVars>>

\* the renew deadline passed without a renewal: the elector cancels the
\* context it gave to OnStartedLeading
RenewDeadlineExpired(i) ==
    /\ pc[i] = "leading"
    /\ now >= RenewDue(i)
    /\ ctxDone' = [ctxDone EXCEPT ![i] = TRUE]
    /\ Goto(i, "stopping")
    /\ UNCHANGED <<now, enableLE, lock, nextTry, lastRenew, runner, worker, steps,
                   lockTouched, everAcquired, onLoseFired>>
    /\ UNCHANGED <<sshVars, plugVars>>

OnStoppedLeading_LogOnly(i) ==
    /\ pc[i] = "stopping"
    /\ onLoseFired' = [onLoseFired EXCEPT ![i] = TRUE]
    /\ ReturnErr(i, "none", "lost lease")
    /\ UNCHANGED <<now, enableLE, lock, nextTry, lastRenew, ctxDone, runner, worker, steps,
                   lockTouched, everAcquired>>
    /\ UNCHANGED <<sshVars, plugVars>>

\* server.go:131-133: the elector calls the callback, which enters
\* klog.Fatalf("leaderelection lost").  Fatalf writes the message and the
\* stacks of the goroutines and flushes the log before it exits; the
\* goroutines started at 152-155 keep running meanwhile.
OnStoppedLeading(i) ==
    /\ pc[i] = "stopping"
    /\ onLoseFired' = [onLoseFired EXCEPT ![i] = TRUE]
    /\ Goto(i, "fatal")
    /\ UNCHANGED <<now, enableLE, lock, nextTry, lastRenew, ctxDone, runner, worker, steps,
                   lockTouched, everAcquired>>
    /\ UNCHANGED <<sshVars, plugVars>>

\* server.go:132: the os.Exit at the end of klog.Fatalf ends the process and
\* with it every goroutine and the elector's timers, so RunOrDie does not
\* return and line 136 is not reached.
FatalExit(i) ==
    /\ pc[i] = "fatal"
    /\ Goto(i, "exited")
    /\ runner' = [runner EXCEPT ![i] = "killed"]
    /\ worker' = [worker EXCEPT ![i] = [w \in Controllers |-> "killed"]]
    /\ nextTry' = [nextTry EXCEPT ![i] = 0]
    /\ lastRenew' = [lastRenew EXCEPT ![i] = 0]
    /\ UNCHANGED <<now, enableLE, lock, ctxDone, steps, lockTouched, everAcquired,
                   onLoseFired>>
    /\ UNCHANGED <<sshVars, plugVars>>

----------------------------------------------------------------------------
(***************************************************************************)
(* The goroutines started by run (server.go:151-156).                      *)
(***************************************************************************)

RunReturn_NoWait(i) ==
    /\ runner[i] = "blocked"
    /\ ~ProcessDead(i)
    /\ runner' = [runner EXCEPT ![i] = "returned"]
    /\ UNCHANGED <<now, enableLE, pc, err, failed, lock, nextTry, lastRenew, ctxDone, worker,
                   steps, lockTouched, everAcquired, onLoseFired>>
    /\ UNCHANGED <<sshVars, plugVars>>

\* server.go:156: <-ctx.Done() returns once the context is cancelled; the
\* closure then returns without joining the four goroutines
RunReturn(i) ==
    /\ runner[i] = "blocked"
    /\ ctxDone[i]
    /\ ~ProcessDead(i)
    /\ runner' = [runner EXCEPT ![i] = "returned"]
    /\ UNCHANGED <<now, enableLE, pc, err, failed, lock, nextTry, lastRenew, ctxDone, worker,
                   steps, lockTouched, everAcquired, onLoseFired>>
    /\ UNCHANGED <<sshVars, plugVars>>

RECURSIVE StepsUpTo(_)
StepsUpTo(n) == IF n = 0 THEN 0 ELSE steps[n] + StepsUpTo(n - 1)

\* one reconciliation step of controller w (server.go:152-155: X.Run)
WorkerStep(i, w) ==
    /\ worker[i][w] = "running"
    /\ ~ProcessDead(i)
    /\ StepsUpTo(NumInst) < MaxSteps
    /\ steps' = [steps EXCEPT ![i] = @ + 1]
    /\ UNCHANGED <<now, enableLE, pc, err, failed, lock, nextTry, lastRenew, ctxDone, runner,
                   worker, lockTouched, everAcquired, onLoseFired>>
    /\ UNCHANGED <<sshVars, plugVars>>

\* controller w observes ctx.Done() (the stop channel it was given) and ends
WorkerStop(i, w) ==
    /\ worker[i][w] = "running"
    /\ ctxDone[i]
    /\ ~ProcessDead(i)
    /\ worker' = [worker EXCEPT ![i][w] = "stopped"]
    /\ UNCHANGED <<now, enableLE, pc, err, failed, lock, nextTry, lastRenew, ctxDone, runner,
                   steps, lockTouched, everAcquired, onLoseFired>>
    /\ UNCHANGED <<sshVars, plugVars>>

----------------------------------------------------------------------------
\* a process that has to act before the clock advances: it is between the
\* start of Run and the elector's first poll (the construction steps take no
\* time on the scale of the lease), a poll or renewal of its elector is due,
\* it has the lease and not yet started leading, its renew deadline has
\* passed, or its elector is about to call the onLose callback.  A process
\* that starts late stays at "buildConfig"; a poll that comes late or not at
\* all is a poll that fails.  A process inside klog.Fatalf is not urgent: the
\* write and flush of the log take a time the code does not bound.
Urgent(i) ==
    \/ pc[i] \in {"healthz", "startControllers", "branch", "hostname", "newLock"}
    \/ pc[i] \in {"acquire", "leading"} /\ now >= nextTry[i]
    \/ pc[i] \in {"acquired", "stopping"}
    \/ pc[i] = "leading" /\ now >= RenewDue(i)

Tick ==
    /\ now < MaxTime
    /\ \E i \in Inst : pc[i] \notin Terminated
    /\ \A i \in Inst : ~Urgent(i)
    /\ now' = now + TickStep
    /\ UNCHANGED <<enableLE, pc, err, failed, lock, nextTry, lastRenew, ctxDone, runner,
                   worker, steps, lockTouched, everAcquired, onLoseFired>>
    /\ UNCHANGED <<sshVars, plugVars>>

SupInit ==
    /\ now = 0
    /\ enableLE \in [Inst -> BOOLEAN]
    /\ pc = [i \in Inst |-> "buildConfig"]
    /\ err = [i \in Inst |-> "none"]
    /\ failed = [i \in Inst |-> "none"]
    /\ lock = [holder |-> NoHolder, renewTime |-> 0]
    /\ nextTry = [i \in Inst |-> 0]
    /\ lastRenew = [i \in Inst |-> 0]
    /\ ctxDone = [i \in Inst |-> FALSE]
    /\ runner = [i \in Inst |-> "none"]
    /\ worker = [i \in Inst |-> [w \in Controllers |-> "idle"]]
    /\ steps = [i \in Inst |-> 0]
    /\ lockTouched = [i \in Inst |-> FALSE]
    /\ everAcquired = [i \in Inst |-> FALSE]
    /\ onLoseFired = [i \in Inst |-> FALSE]

Next ==
    \/ \E i \in Inst : buildConfig(i)
    \/ \E i \in Inst : StartHealthz(i)
    \/ \E i \in Inst : startControllers(i)
    \/ \E i \in Inst : RunWithoutElection(i)
    \/ \E i \in Inst : NewLeaderElectionClient(i)
    \/ \E i \in Inst : Hostname(i)
    \/ \E i \in Inst : NewResourceLock(i)
    \/ \E i \in Inst : TryAcquire(i)
    \/ \E i \in Inst : OnStartedLeading(i)
    \/ \E i \in Inst : Renew(i)
    \/ \E i \in Inst : RenewDeadlineExpired(i)
    \/ \E i \in Inst : OnStoppedLeading(i)
    \/ \E i \in Inst : FatalExit(i)
    \/ \E i \in Inst : RunReturn(i)
    \/ \E i \in Inst, w \in Controllers : WorkerStep(i, w)
    \/ \E i \in Inst, w \in Controllers : WorkerStop(i, w)
    \/ Tick

\* part_000:67-69
Name == <<"ssh">>

\* part_000:184-186: fmt.Sprintf("%s-%s-%s", job.Name, job.UID, sp.Name())
secretName(j) == jobName[j] \o <<"-">> \o jobUID[j] \o <<"-">> \o Name

\* no hook of the plugin is being called: the state of the plugin's objects
\* while only the supervisor is looked at
SSHQuiet ==
    /\ jobName = [j \in Jobs |-> <<"a">>]
    /\ jobUID = [j \in Jobs |-> <<"u">>]
    /\ marker = [j \in Jobs |-> <<>>]
    /\ secrets = {}
    /\ opc = [t \in Callers |-> "idle"]
    /\ ojob = [t \in Callers |-> 1]
    /\ ret = [t \in Callers |-> "none"]
    /\ wrote = [t \in Callers |-> FALSE]
    /\ adds = [j \in Jobs |-> 0]
    /\ gens = [j \in Jobs |-> 0]
    /\ creates = [j \in Jobs |-> 0]
    /\ created = [j \in Jobs |-> 0]
    /\ dels = [j \in Jobs |-> 0]

\* part_000:55 (the default of sshKeyFilePath); the constants of the
\* package are declared outside the two source files
SSHAbsolutePath == <<"/root/.ssh">>

SSHRelativePath == <<".ssh">>

ConfigMapMountPath == <<"/etc/volcano">>

\* no plugin is being built, no pod mutated, no config generated
PlugQuiet ==
    /\ plugArgs = <<>>
    /\ plugState = "unbuilt"
    /\ noRoot = FALSE
    /\ sshKeyFilePath = SSHAbsolutePath
    /\ podVolumes = <<>>
    /\ podMounts = <<>>
    /\ podCalls = 0
    /\ podRet = "none"
    /\ tasks = <<>>
    /\ config = <<>>
    /\ cfgDone = FALSE

Init == SupInit /\ SSHQuiet /\ PlugQuiet

Spec == Init /\ [][Next]_vars

----------------------------------------------------------------------------
(***************************************************************************)
(* The ssh plugin's job hooks, part_000:77-99.  OnJobAdd is one action per   *)
(* statement that reads or writes shared state or can fail.                *)
(***************************************************************************)

AllIdle == \A t \in Callers : opc[t] = "idle"

\* bounds of the job's task list
MaxTasks == 2

MaxReplicas == 2

\* part_000:202: the two lines every config starts with
ConfigHeader == <<"StrictHostKeyChecking no", "\n", "UserKnownHostsFile /dev/null", "\n">>

\* jobhelpers.MakePodName: job name, task name and index, joined by "-"
MakePodName(jn, tn, i) == jn \o <<"-">> \o tn \o <<"-">> \o <<ToString(i)>>

\* part_000:215-216: the two lines of one host
HostEntry(hostName, subdomain) ==
    <<"Host ">> \o hostName \o <<"\n">>
    \o <<"  HostName ">> \o hostName \o <<".">> \o subdomain \o <<"\n">>

RECURSIVE replicaLoop_NoBreak(_, _, _, _)
\* the inner loop without lines 217-219
replicaLoop_NoBreak(jn, ts, i, c) ==
    IF ~(i < ts.replicas) THEN c
    ELSE LET hostName == IF Len(ts.hostname) = 0
                         THEN MakePodName(jn, ts.name, i) ELSE ts.hostname
             subdomain == IF Len(ts.subdomain) = 0 THEN jn ELSE ts.subdomain
         IN  replicaLoop_NoBreak(jn, ts, i + 1, c \o HostEntry(hostName, subdomain))

RECURSIVE replicaLoop_JobSubdomain(_, _, _, _)
\* the inner loop without lines 211-213: the subdomain is always the job name
replicaLoop_JobSubdomain(jn, ts, i, c) ==
    IF ~(i < ts.replicas) THEN c
    ELSE LET hostName == IF Len(ts.hostname) = 0
                         THEN MakePodName(jn, ts.name, i) ELSE ts.hostname
             c2 == c \o HostEntry(hostName, jn)
         IN  IF Len(ts.hostname) # 0 THEN c2
             ELSE replicaLoop_JobSubdomain(jn, ts, i + 1, c2)

RECURSIVE replicaLoop(_, _, _, _)
\* part_000:205-220: the loop over the replicas of task ts, from replica
\* i on, appending to the config c
replicaLoop(jn, ts, i, c) ==
    IF ~(i < ts.replicas) THEN c
    ELSE LET hostName == IF Len(ts.hostname) = 0
                         THEN MakePodName(jn, ts.name, i) ELSE ts.hostname
             subdomain == IF Len(ts.subdomain) = 0 THEN jn ELSE ts.subdomain
             c2 == c \o HostEntry(hostName, subdomain)
         IN  IF Len(ts.hostname) # 0 THEN c2
             ELSE replicaLoop(jn, ts, i + 1, c2)

RECURSIVE taskLoop(_, _, _)
\* part_000:204-221: the loop over the tasks
taskLoop(jn, tss, c) ==
    IF tss = <<>> THEN c
    ELSE taskLoop(jn, Tail(tss), replicaLoop(jn, Head(tss), 0, c))

\* part_000:201-224
generateSSHConfig(j) == taskLoop(jobName[j], tasks, ConfigHeader)


RECURSIVE CallsUpTo(_)
CallsUpTo(n) == IF n = 0 THEN 0 ELSE adds[n] + dels[n] + CallsUpTo(n - 1)

\* the caller of the hooks when they are called one after the other
SeqCaller == CHOOSE t \in Callers : \A u \in Callers : t <= u

\* helpers.CreateSecret (pkg/apis/helpers, not among the source files): the
\* create is accepted when the request does not fail and no secret of that
\* name exists
CreateSecretOK(n, ok) == ok /\ n \notin secrets

\* helpers.DeleteSecret (pkg/apis/helpers, not among the source files):
\* deleting an absent secret is a success
DeleteSecret(n, ok) == IF ok THEN secrets \ {n} ELSE secrets

\* leave OnJobAdd with return value r
ReturnFromAdd(t, r) ==
    /\ opc' = [opc EXCEPT ![t] = "idle"]
    /\ ret' = [ret EXCEPT ![t] = r]

\* a caller enters OnJobAdd(job j)
OnJobAddBegin(t, j) ==
    /\ opc[t] = "idle"
    /\ CallsUpTo(NumJobs) < MaxCalls
    /\ opc' = [opc EXCEPT ![t] = "check"]
    /\ ojob' = [ojob EXCEPT ![t] = j]
    /\ ret' = [ret EXCEPT ![t] = "none"]
    /\ wrote' = [wrote EXCEPT ![t] = FALSE]
    /\ adds' = [adds EXCEPT ![j] = @ + 1]
    /\ UNCHANGED <<jobName, jobUID, marker, secrets, gens, creates, created, dels>>
    /\ UNCHANGED <<supVars, plugVars>>

\* the hooks of one job are called one after the other
CallOnJobAdd(t, j) == AllIdle /\ OnJobAddBegin(t, j)

OnJobAddCheck_NoSkip(t) ==
    /\ opc[t] = "check"
    /\ opc' = [opc EXCEPT ![t] = "generate"]
    /\ UNCHANGED <<jobName, jobUID, marker, secrets, ojob, ret, wrote,
                   adds, gens, creates, created, dels>>
    /\ UNCHANGED <<supVars, plugVars>>

\* the check behind a lock held per job from the check to the return
OnJobAddCheck_Locked(t) ==
    /\ opc[t] = "check"
    /\ \A u \in Callers \ {t} :
         ~(ojob[u] = ojob[t] /\ opc[u] \in {"generate", "create", "mark"})
    /\ IF marker[ojob[t]] = Name
       THEN ReturnFromAdd(t, "nil")
       ELSE /\ opc' = [opc EXCEPT ![t] = "generate"]
            /\ UNCHANGED ret
    /\ UNCHANGED <<jobName, jobUID, marker, secrets, ojob, wrote,
                   adds, gens, creates, created, dels>>
    /\ UNCHANGED <<supVars, plugVars>>

\* part_000:78-80
OnJobAddCheck(t) ==
    /\ opc[t] = "check"
    /\ IF marker[ojob[t]] = Name
       THEN ReturnFromAdd(t, "nil")
       ELSE /\ opc' = [opc EXCEPT ![t] = "generate"]
            /\ UNCHANGED ret
    /\ UNCHANGED <<jobName, jobUID, marker, secrets, ojob, wrote,
                   adds, gens, creates, created, dels>>
    /\ UNCHANGED <<supVars, plugVars>>

\* part_000:82-85 and generateRsaKey (152-182): rsa.GenerateKey or
\* ssh.NewPublicKey can fail; when they do not, the data of the secret is
\* built, the config among it (179)
OnJobAddGenerate(t) ==
    /\ opc[t] = "generate"
    /\ gens' = [gens EXCEPT ![ojob[t]] = @ + 1]
    /\ \E ok \in BOOLEAN :
         IF ok THEN /\ opc' = [opc EXCEPT ![t] = "create"]
                    /\ config' = generateSSHConfig(ojob[t])
                    /\ cfgDone' = TRUE
                    /\ UNCHANGED ret
               ELSE /\ ReturnFromAdd(t, "errGenerate")
                    /\ UNCHANGED <<config, cfgDone>>
    /\ UNCHANGED <<jobName, jobUID, marker, secrets, ojob, wrote,
                   adds, creates, created, dels>>
    /\ UNCHANGED <<plugArgs, plugState, noRoot, sshKeyFilePath, podVolumes,
                   podMounts, podCalls, podRet, tasks>>
    /\ UNCHANGED supVars

OnJobAddCreate_MarkOnError(t) ==
    /\ opc[t] = "create"
    /\ creates' = [creates EXCEPT ![ojob[t]] = @ + 1]
    /\ \E ok \in BOOLEAN :
         IF CreateSecretOK(secretName(ojob[t]), ok)
         THEN /\ secrets' = secrets \cup {secretName(ojob[t])}
              /\ created' = [created EXCEPT ![ojob[t]] = @ + 1]
              /\ wrote' = [wrote EXCEPT ![t] = TRUE]
         ELSE UNCHANGED <<secrets, created, wrote>>
    /\ opc' = [opc EXCEPT ![t] = "mark"]
    /\ UNCHANGED <<jobName, jobUID, marker, ojob, ret, adds, gens, dels>>
    /\ UNCHANGED <<supVars, plugVars>>

\* part_000:87-90
OnJobAddCreate(t) ==
    /\ opc[t] = "create"
    /\ creates' = [creates EXCEPT ![ojob[t]] = @ + 1]
    /\ \E ok \in BOOLEAN :
         IF CreateSecretOK(secretName(ojob[t]), ok)
         THEN /\ secrets' = secrets \cup {secretName(ojob[t])}
              /\ created' = [created EXCEPT ![ojob[t]] = @ + 1]
              /\ wrote' = [wrote EXCEPT ![t] = TRUE]
              /\ opc' = [opc EXCEPT ![t] = "mark"]
              /\ UNCHANGED ret
         ELSE /\ ReturnFromAdd(t, "errCreate")
              /\ UNCHANGED <<secrets, created, wrote>>
    /\ UNCHANGED <<jobName, jobUID, marker, ojob, adds, gens, dels>>
    /\ UNCHANGED <<supVars, plugVars>>

OnJobAddMark_Forget(t) ==
    /\ opc[t] = "mark"
    /\ ReturnFromAdd(t, "nil")
    /\ UNCHANGED <<jobName, jobUID, marker, secrets, ojob, wrote,
                   adds, gens, creates, created, dels>>
    /\ UNCHANGED <<supVars, plugVars>>

\* part_000:92-94
OnJobAddMark(t) ==
    /\ opc[t] = "mark"
    /\ marker' = [marker EXCEPT ![ojob[t]] = Name]
    /\ ReturnFromAdd(t, "nil")
    /\ UNCHANGED <<jobName, jobUID, secrets, ojob, wrote,
                   adds, gens, creates, created, dels>>
    /\ UNCHANGED <<supVars, plugVars>>

\* a delete that also takes the marker off the job
OnJobDelete_ClearMarker(t, j) ==
    /\ opc[t] = "idle"
    /\ CallsUpTo(NumJobs) < MaxCalls
    /\ dels' = [dels EXCEPT ![j] = @ + 1]
    /\ ojob' = [ojob EXCEPT ![t] = j]
    /\ \E ok \in BOOLEAN :
         /\ secrets' = DeleteSecret(secretName(j), ok)
         /\ marker' = IF ok THEN [marker EXCEPT ![j] = <<>>] ELSE marker
         /\ ret' = [ret EXCEPT ![t] = IF ok THEN "nil" ELSE "errDelete"]
    /\ UNCHANGED <<jobName, jobUID, opc, wrote, adds, gens, creates, created>>
    /\ UNCHANGED <<supVars, plugVars>>

\* part_000:97-99
OnJobDelete(t, j) ==
    /\ opc[t] = "idle"
    /\ CallsUpTo(NumJobs) < MaxCalls
    /\ dels' = [dels EXCEPT ![j] = @ + 1]
    /\ ojob' = [ojob EXCEPT ![t] = j]
    /\ \E ok \in BOOLEAN :
         /\ secrets' = DeleteSecret(secretName(j), ok)
         /\ ret' = [ret EXCEPT ![t] = IF ok THEN "nil" ELSE "errDelete"]
    /\ UNCHANGED <<jobName, jobUID, marker, opc, wrote, adds, gens, creates, created>>
    /\ UNCHANGED <<supVars, plugVars>>

CallOnJobDelete(t, j) == AllIdle /\ OnJobDelete(t, j)

\* the supervisor is not looked at
SupQuiet == SupInit /\ enableLE = [i \in Inst |-> FALSE]

\* job objects as the controller hands them to the plugin: the
\* ControlledResources map exists, the marker is absent or was set by an
\* earlier OnJobAdd; the secret of a job may or may not exist
SSHInit ==
    /\ \E id \in [Jobs -> JobIdents] :
         /\ jobName = [j \in Jobs |-> id[j].name]
         /\ jobUID = [j \in Jobs |-> id[j].uid]
    /\ marker \in [Jobs -> {<<>>, Name}]
    /\ secrets \in SUBSET {secretName(j) : j \in Jobs}
    /\ opc = [t \in Callers |-> "idle"]
    /\ ojob = [t \in Callers |-> 1]
    /\ ret = [t \in Callers |-> "none"]
    /\ wrote = [t \in Callers |-> FALSE]
    /\ adds = [j \in Jobs |-> 0]
    /\ gens = [j \in Jobs |-> 0]
    /\ creates = [j \in Jobs |-> 0]
    /\ created = [j \in Jobs |-> 0]
    /\ dels = [j \in Jobs |-> 0]

InitSSH == SSHInit /\ SupQuiet /\ PlugQuiet

NextSSH ==
    \/ \E j \in Jobs : CallOnJobAdd(SeqCaller, j)
    \/ \E t \in Callers : OnJobAddCheck(t)
    \/ \E t \in Callers : OnJobAddGenerate(t)
    \/ \E t \in Callers : OnJobAddCreate(t)
    \/ \E t \in Callers : OnJobAddMark(t)
    \/ \E j \in Jobs : CallOnJobDelete(SeqCaller, j)

SpecSSH == InitSSH /\ [][NextSSH]_vars

----------------------------------------------------------------------------
(***************************************************************************)
(* Properties of the ssh plugin's OnJobAdd.                                *)
(***************************************************************************)

\* the objects OnJobAdd can write: the secrets, the job, and the counts of
\* generations and creates
AddEffects == <<secrets, marker, jobName, jobUID, gens, creates, created>>

\* C8: an OnJobAdd that finds the marker "plugin-ssh" of its job set returns
\* nil at once: no key generation, no CreateSecret call, no change of the
\* secrets or of the job.
C8_MarkedAddIsNoOp ==
    [][\A t \in Callers :
         (opc[t] = "check" /\ marker[ojob[t]] = Name /\ opc'[t] # "check") =>
            /\ opc'[t] = "idle"
            /\ ret'[t] = "nil"
            /\ UNCHANGED AddEffects]_vars

\* OnJobAdd was called twice on a job, the first call created the secret
\* and set the marker, the second returned nil without generating anything
C8_Witness ==
    \E j \in Jobs :
        /\ AllIdle
        /\ adds[j] = 2 /\ dels[j] = 0
        /\ gens[j] = 1 /\ creates[j] = 1 /\ created[j] = 1
        /\ marker[j] = Name
        /\ ojob[SeqCaller] = j /\ ret[SeqCaller] = "nil"

\* C9: for every job object at most one CreateSecret call of its OnJobAdd
\* invocations succeeds, and after that success no OnJobAdd on it calls
\* CreateSecret again.
C9_AppliedAtMostOnce ==
    /\ [](\A j \in Jobs : created[j] <= 1)
    /\ [][\A j \in Jobs : created[j] >= 1 => creates'[j] = creates[j]]_vars

\* three OnJobAdd calls on one job: one failed, one succeeded, one skipped
C9_Witness ==
    \E j \in Jobs :
        /\ AllIdle
        /\ adds[j] = 3
        /\ gens[j] = 2 /\ created[j] = 1
        /\ marker[j] = Name

\* a step of OnJobAdd in which generateRsaKey or CreateSecret failed
GenerateFailed(t) ==
    /\ gens'[ojob[t]] = gens[ojob[t]] + 1
    /\ opc[t] = "generate" /\ opc'[t] # "create"

CreateFailed(t) ==
    /\ creates'[ojob[t]] = creates[ojob[t]] + 1
    /\ opc[t] = "create" /\ created'[ojob[t]] = created[ojob[t]]

\* C10: when generateRsaKey or CreateSecret fails OnJobAdd returns an error
\* and the marker is and stays unset; the marker is written only by an
\* invocation whose own CreateSecret succeeded, which returns nil; an
\* OnJobAdd that finds the marker unset goes on to generate (and, from
\* there, to create) again.
C10_FailureLeavesUnmarked ==
    /\ [][\A t \in Callers :
            (GenerateFailed(t) \/ CreateFailed(t)) =>
               /\ opc'[t] = "idle"
               /\ ret'[t] \in {"errGenerate", "errCreate"}
               /\ marker[ojob[t]] = <<>>
               /\ marker' = marker]_vars
    /\ [][\A j \in Jobs :
            marker'[j] # marker[j] =>
               \E t \in Callers :
                  /\ ojob[t] = j /\ opc[t] # "idle" /\ wrote[t]
                  /\ opc'[t] = "idle" /\ ret'[t] = "nil"
                  /\ marker'[j] = Name]_vars
    /\ [][\A t \in Callers :
            (opc[t] = "check" /\ marker[ojob[t]] = <<>> /\ opc'[t] # "check") =>
               opc'[t] = "generate" /\ UNCHANGED AddEffects]_vars

\* the first OnJobAdd failed in CreateSecret, the second generated and
\* created again and set the marker
C10_Witness ==
    \E j \in Jobs :
        /\ AllIdle
        /\ adds[j] = 2
        /\ gens[j] = 2 /\ creates[j] = 2 /\ created[j] = 1
        /\ marker[j] = Name

\* the step the elector of a process takes on losing the lease
LoseStep == \E i \in Inst : RenewDeadlineExpired(i) \/ OnStoppedLeading(i) \/ FatalExit(i)

\* processes keep executing: a process whose renew deadline has passed is
\* not held up forever before it cancels the context and runs the callback
FairSpec == Spec /\ WF_vars(LoseStep)

----------------------------------------------------------------------------
(***************************************************************************)
(* Properties of the supervisor.                                           *)
(***************************************************************************)

\* the active phase: from the start of the controllers by the onAcquire
\* callback to the end of the process
Active(i) == runner[i] \in {"blocked", "returned"} /\ pc[i] \notin Terminated

\* the process held the lease and its renew deadline has passed
LostHolder(i) ==
    \/ pc[i] = "stopping"
    \/ pc[i] = "leading" /\ now >= RenewDue(i)

\* C1 as claimed: among the processes that run with leader election
\* enabled, at most one is in the active phase (from the start of its
\* controllers to the end of the process) in every reachable state.
C1_MutualExclusion ==
    Cardinality({i \in Inst : enableLE[i] /\ Active(i)}) <= 1

\* C1, amended: among the processes that run with leader election enabled,
\* at most one is in the active phase and has not had its onLose callback
\* called, in every reachable state.
C1_MutualExclusionUntilOnLose ==
    Cardinality({i \in Inst : enableLE[i] /\ Active(i) /\ ~onLoseFired[i]}) <= 1

\* a handover: one process lost the lease, its callback has been called and
\* the process has not ended yet; another holds the lease and is active
C1_Witness ==
    \E i, j \in Inst :
        /\ i # j
        /\ enableLE[i] /\ enableLE[j]
        /\ pc[i] = "fatal" /\ onLoseFired[i]
        /\ Active(j) /\ lock.holder = j /\ ~onLoseFired[j]

\* C2 as claimed: once the onLose callback of a process has fired, no
\* worker of the process takes another reconciliation step.
C2_NoStepAfterLoss ==
    [][\A i \in Inst : onLoseFired[i] => steps'[i] = steps[i]]_vars

\* C2, amended: a process that lost holder status gets its onLose callback
\* called, the callback ends the process, and once the process has ended no
\* worker of it takes another reconciliation step.  A process leaves the
\* state of having lost the lease only by the callback firing, no process
\* stays in that state or in klog.Fatalf forever, and after the callback the
\* process is in klog.Fatalf or gone.
C2_NoStepAfterExit ==
    /\ [](\A i \in Inst : onLoseFired[i] => pc[i] \in {"fatal", "exited"})
    /\ [][\A i \in Inst : pc[i] = "exited" => steps'[i] = steps[i]]_vars
    /\ [][\A i \in Inst : (LostHolder(i) /\ ~LostHolder(i)') => onLoseFired'[i]]_vars
    /\ (\E i \in Inst : LostHolder(i) \/ pc[i] = "fatal")
           ~> (\A i \in Inst : ~LostHolder(i) /\ pc[i] # "fatal")

\* a process that reconciled, lost the lease and has ended by the callback
C2_Witness ==
    \E i \in Inst : onLoseFired[i] /\ steps[i] > 0 /\ pc[i] = "exited"

\* C3: with leader election enabled, no worker of a process that never
\* acquired the lease has been started.
C3_StartedOnlyByOnAcquire ==
    \A i \in Inst :
        (enableLE[i] /\ ~everAcquired[i]) =>
            /\ runner[i] = "none"
            /\ \A w \in Controllers : worker[i][w] = "idle"

\* the lock of one process could not be built, another one acquired the
\* lease and runs its controllers
C3_Witness ==
    \E i, j \in Inst :
        /\ enableLE[i] /\ failed[i] = "lock" /\ pc[i] = "returned"
        /\ everAcquired[j] /\ \A w \in Controllers : worker[j][w] = "running"

\* C4: whenever Run has returned, the value it returned is an error.
C4_RunNeverReturnsNil ==
    \A i \in Inst : pc[i] = "returned" => err[i] \notin {"none", "nil"}

\* Run returned because the lock resource could not be created
C4_Witness ==
    \E i \in Inst :
        pc[i] = "returned" /\ failed[i] = "lock"
            /\ err[i] = "couldn't create resource lock"

\* C5: once configuration/client construction or the health-check start has
\* failed, Run is over (the error returned, or the panic of
\* NewForConfigOrDie), no worker was started and the lock was never read or
\* written by that process.
C5_StartupFailureStops ==
    \A i \in Inst :
        failed[i] \in {"config", "healthz", "client"} =>
            /\ pc[i] \in {"returned", "panicked"}
            /\ pc[i] = "returned" => err[i] = failed[i]
            /\ runner[i] = "none"
            /\ \A w \in Controllers : worker[i][w] = "idle"
            /\ ~lockTouched[i]

\* the health check of one process failed while another one is active
C5_Witness ==
    \E i, j \in Inst :
        /\ failed[i] = "healthz" /\ pc[i] = "returned"
        /\ Active(j)

\* C6: once run has been called all four workers have been started; run has
\* returned only if the cancellation signal fired; a worker has stopped only
\* if that same signal fired.
C6_RunBlocksUntilCancelled ==
    \A i \in Inst :
        /\ runner[i] # "none" => \A w \in Controllers : worker[i][w] # "idle"
        /\ runner[i] = "returned" => ctxDone[i]
        /\ \A w \in Controllers : worker[i][w] = "stopped" => ctxDone[i]

\* run has returned while a worker is still running
C6_Witness ==
    \E i \in Inst, w \in Controllers :
        runner[i] = "returned" /\ worker[i][w] = "running" /\ ~ProcessDead(i)

\* C7: a process with leader election disabled never reads or writes the
\* lock and never enters the election; at the branch its controllers can be
\* started whatever the state of the lease, and once started they all run.
C7_NoElectionNoLock ==
    \A i \in Inst :
        ~enableLE[i] =>
            /\ ~lockTouched[i]
            /\ pc[i] \in {"buildConfig", "healthz", "startControllers", "branch",
                          "inRun", "returned", "panicked"}
            /\ pc[i] = "branch" => ENABLED RunWithoutElection(i)
            /\ pc[i] = "inRun" => \A w \in Controllers : worker[i][w] = "running"

\* the controllers of a process without election run while another process
\* holds a valid lease and is active
C7_Witness ==
    \E i, j \in Inst :
        /\ ~enableLE[i] /\ pc[i] = "inRun" /\ steps[i] > 0
        /\ enableLE[j] /\ Active(j) /\ lock.holder = j /\ LeaseValid

\* ====================================================================
\* The plugin object and OnPodCreate (part_000:39-75, 101-150, 188-199)
\* ====================================================================

\* bounds of the pod and of the plugin arguments
MaxArgs == 2

MaxPre == 1

MaxContainers == 2

MaxPodCalls == 2

\* part_000:108 (0600) and part_000:133 (0755), as decimal numbers
Mode0600 == 384

Mode0755 == 493

\* part_000:61
NoRootPath == ConfigMapMountPath \o <<"/">> \o SSHRelativePath

\* a path that is neither of the two defaults
CustomPath == <<"/home/user/.ssh">>

\* the keys of the secret's data (part_000:111-128); declared outside
\* the two source files
SSHPrivateKey == <<"id_rsa">>

SSHPublicKey == <<"id_rsa.pub">>

SSHAuthorizedKeys == <<"authorized_keys">>

SSHConfig == <<"config">>

\* one argument of the plugin: --no-root, or --ssh-key-file-path=<value>
Flags ==
    {[flag |-> "no-root", value |-> <<>>]}
    \cup {[flag |-> "ssh-key-file-path", value |-> p] :
             p \in {SSHAbsolutePath, NoRootPath, CustomPath}}

\* argument lists that name each option at most once
ArgLists ==
    {a \in UNION {[1..n -> Flags] : n \in 0..MaxArgs} :
        \A x, y \in DOMAIN a : a[x].flag = a[y].flag => x = y}

RECURSIVE Parse(_, _)
\* flagSet.Parse (part_000:195): the arguments set the fields in order
Parse(args, sp) ==
    IF args = <<>> THEN sp
    ELSE LET a == Head(args) IN
         Parse(Tail(args),
               IF a.flag = "no-root"
               THEN [sp EXCEPT !.noRoot = TRUE]
               ELSE [sp EXCEPT !.sshKeyFilePath = a.value])

\* part_000:188-199
addFlags(sp) == Parse(sp.pluginArguments, sp)

\* part_000:59-62: the path of the plugin whose flags have been parsed
NewPath(sp) ==
    IF sp.noRoot /\ sp.sshKeyFilePath = SSHAbsolutePath
    THEN NoRootPath
    ELSE sp.sshKeyFilePath

\* part_000:51-65
New ==
    /\ plugState = "unbuilt"
    /\ LET sp == addFlags([pluginArguments |-> plugArgs,
                           noRoot |-> FALSE,
                           sshKeyFilePath |-> SSHAbsolutePath]) IN
         /\ noRoot' = sp.noRoot
         /\ sshKeyFilePath' = NewPath(sp)
    /\ plugState' = "built"
    /\ UNCHANGED <<plugArgs, podVolumes, podMounts, podCalls, podRet,
                   tasks, config, cfgDone>>
    /\ UNCHANGED <<supVars, sshVars>>

\* part_000:111-128
SSHItems ==
    << [key |-> SSHPrivateKey, path |-> SSHRelativePath \o <<"/">> \o SSHPrivateKey],
       [key |-> SSHPublicKey, path |-> SSHRelativePath \o <<"/">> \o SSHPublicKey],
       [key |-> SSHPublicKey, path |-> SSHRelativePath \o <<"/">> \o SSHAuthorizedKeys],
       [key |-> SSHConfig, path |-> SSHRelativePath \o <<"/">> \o SSHConfig] >>

\* the volume with the mode chosen by the no-root option, not the path
sshVolume_ModeByNoRoot(j) ==
    [name |-> secretName(j), secretName |-> secretName(j), items |-> SSHItems,
     defaultMode |-> IF noRoot THEN Mode0755 ELSE Mode0600]

\* part_000:104-135
sshVolume(j) ==
    [name |-> secretName(j), secretName |-> secretName(j), items |-> SSHItems,
     defaultMode |-> IF sshKeyFilePath # SSHAbsolutePath THEN Mode0755 ELSE Mode0600]

\* part_000:140-144
volumeMount(j) ==
    [mountPath |-> sshKeyFilePath, subPath |-> SSHRelativePath, name |-> secretName(j)]

\* the mount added to the first container only
mountRsaKey_FirstContainer(j) ==
    /\ podVolumes' = Append(podVolumes, sshVolume(j))
    /\ podMounts' = [i \in DOMAIN podMounts |->
                        IF i = 1 THEN Append(podMounts[i], volumeMount(j))
                        ELSE podMounts[i]]

\* part_000:101-150
mountRsaKey(j) ==
    /\ podVolumes' = Append(podVolumes, sshVolume(j))
    /\ podMounts' = [i \in DOMAIN podMounts |-> Append(podMounts[i], volumeMount(j))]

\* a hook that refuses a pod whose job has no marker yet
OnPodCreate_RequireMarker(j) ==
    /\ plugState = "built"
    /\ podCalls < MaxPodCalls
    /\ podCalls' = podCalls + 1
    /\ IF marker[j] = Name
       THEN mountRsaKey(j) /\ podRet' = "nil"
       ELSE podRet' = "errNoSecret" /\ UNCHANGED <<podVolumes, podMounts>>
    /\ UNCHANGED <<plugArgs, plugState, noRoot, sshKeyFilePath, tasks, config, cfgDone>>
    /\ UNCHANGED <<supVars, sshVars>>

\* part_000:71-75
OnPodCreate(j) ==
    /\ plugState = "built"
    /\ podCalls < MaxPodCalls
    /\ podCalls' = podCalls + 1
    /\ mountRsaKey(j)
    /\ podRet' = "nil"
    /\ UNCHANGED <<plugArgs, plugState, noRoot, sshKeyFilePath, tasks, config, cfgDone>>
    /\ UNCHANGED <<supVars, sshVars>>

\* the job the pod belongs to
PodJob == CHOOSE j \in Jobs : \A k \in Jobs : j <= k

\* volumes and mounts a pod template may already carry
PreVolume == [name |-> <<"v">>, secretName |-> <<>>, items |-> <<>>, defaultMode |-> Mode0600]

PreMount == [mountPath |-> <<"/data">>, subPath |-> <<>>, name |-> <<"v">>]

\* the pod before the plugin sees it, the arguments of the plugin, and
\* the job as any earlier hook may have left it
PodInit ==
    /\ \E id \in JobIdents :
         /\ jobName = [j \in Jobs |-> id.name]
         /\ jobUID = [j \in Jobs |-> id.uid]
    /\ \E mk \in {<<>>, Name} : marker = [j \in Jobs |-> mk]
    /\ secrets \in SUBSET {secretName(j) : j \in Jobs}
    /\ opc = [t \in Callers |-> "idle"]
    /\ ojob = [t \in Callers |-> 1]
    /\ ret = [t \in Callers |-> "none"]
    /\ wrote = [t \in Callers |-> FALSE]
    /\ adds = [j \in Jobs |-> 0]
    /\ gens = [j \in Jobs |-> 0]
    /\ creates = [j \in Jobs |-> 0]
    /\ created = [j \in Jobs |-> 0]
    /\ dels = [j \in Jobs |-> 0]
    /\ plugArgs \in ArgLists
    /\ plugState = "unbuilt"
    /\ noRoot = FALSE
    /\ sshKeyFilePath = SSHAbsolutePath
    /\ podVolumes \in UNION {[1..n -> {PreVolume}] : n \in 0..MaxPre}
    /\ \E c \in 0..MaxContainers :
         podMounts \in [1..c -> UNION {[1..n -> {PreMount}] : n \in 0..MaxPre}]
    /\ podCalls = 0
    /\ podRet = "none"
    /\ tasks = <<>>
    /\ config = <<>>
    /\ cfgDone = FALSE

InitPod == PodInit /\ SupQuiet

NextPod ==
    \/ New
    \/ OnPodCreate(PodJob)

SpecPod == InitPod /\ [][NextPod]_vars

\* --------------------------------------------------------------------
\* C11: one OnPodCreate on a pod with any number of containers and any
\* volumes and mounts already there appends exactly one volume to the
\* pod and exactly one mount to every container, all of them named by
\* the secret name of the job, and changes nothing that was there.
\* --------------------------------------------------------------------
C11_MountFanOut ==
    [][podCalls' # podCalls =>
         /\ Len(podVolumes') = Len(podVolumes) + 1
         /\ SubSeq(podVolumes', 1, Len(podVolumes)) = podVolumes
         /\ podVolumes'[Len(podVolumes')].name = secretName(PodJob)
         /\ DOMAIN podMounts' = DOMAIN podMounts
         /\ \A i \in DOMAIN podMounts :
              /\ Len(podMounts'[i]) = Len(podMounts[i]) + 1
              /\ SubSeq(podMounts'[i], 1, Len(podMounts[i])) = podMounts[i]
              /\ podMounts'[i][Len(podMounts'[i])].name = secretName(PodJob)]_vars

\* one call done on a pod of two containers that had a volume, one
\* container with a mount of its own and one without
C11_Witness ==
    /\ podCalls = 1
    /\ Len(podVolumes) = 2
    /\ Len(podMounts) = 2
    /\ \E i, k \in DOMAIN podMounts :
         /\ Len(podMounts[i]) = 2 /\ podMounts[i][1] = PreMount
         /\ Len(podMounts[k]) = 1 /\ podMounts[k][1].name = secretName(PodJob)

\* ====================================================================
\* generateSSHConfig (part_000:201-224) as OnJobAdd calls it
\* ====================================================================

\* the tasks a job may declare: each with a name of its own, a replica
\* count, and a hostname and a subdomain that may be empty
TaskName(k) == <<"task", ToString(k)>>

TaskShapes ==
    [replicas : 0..MaxReplicas,
     hostname : {<<>>, <<"h">>},
     subdomain : {<<>>, <<"s">>}]

TaskLists ==
    UNION {{[k \in 1..n |-> [name |-> TaskName(k),
                             replicas |-> sh[k].replicas,
                             hostname |-> sh[k].hostname,
                             subdomain |-> sh[k].subdomain]] :
               sh \in [1..n -> TaskShapes]} : n \in 0..MaxTasks}

CfgInit ==
    /\ \E id \in JobIdents :
         /\ jobName = [j \in Jobs |-> id.name]
         /\ jobUID = [j \in Jobs |-> id.uid]
    /\ marker = [j \in Jobs |-> <<>>]
    /\ secrets = {}
    /\ opc = [t \in Callers |-> "idle"]
    /\ ojob = [t \in Callers |-> 1]
    /\ ret = [t \in Callers |-> "none"]
    /\ wrote = [t \in Callers |-> FALSE]
    /\ adds = [j \in Jobs |-> 0]
    /\ gens = [j \in Jobs |-> 0]
    /\ creates = [j \in Jobs |-> 0]
    /\ created = [j \in Jobs |-> 0]
    /\ dels = [j \in Jobs |-> 0]
    /\ plugArgs = <<>>
    /\ plugState = "unbuilt"
    /\ noRoot = FALSE
    /\ sshKeyFilePath = SSHAbsolutePath
    /\ podVolumes = <<>>
    /\ podMounts = <<>>
    /\ podCalls = 0
    /\ podRet = "none"
    /\ tasks \in TaskLists
    /\ config = <<>>
    /\ cfgDone = FALSE

InitCfg == CfgInit /\ SupQuiet

\* OnJobAdd called on the job, one call after the other
NextCfg ==
    \/ CallOnJobAdd(SeqCaller, PodJob)
    \/ OnJobAddCheck(SeqCaller)
    \/ OnJobAddGenerate(SeqCaller)
    \/ OnJobAddCreate(SeqCaller)
    \/ OnJobAddMark(SeqCaller)

SpecCfg == InitCfg /\ [][NextCfg]_vars

\* what the loops append for the tasks tss alone
ConfigBody(tss) == taskLoop(jobName[PodJob], tss, <<>>)

\* the config is the part of the tasks before task k, then blk, then the
\* part of the tasks after task k
TaskBlockIs(k, blk) ==
    config = ConfigHeader
             \o ConfigBody(SubSeq(tasks, 1, k - 1))
             \o blk
             \o ConfigBody(SubSeq(tasks, k + 1, Len(tasks)))

\* the subdomain a task's hosts are mapped under
EffectiveSubdomain(ts) == IF ts.subdomain = <<>> THEN jobName[PodJob] ELSE ts.subdomain

RECURSIVE EntriesOfReplicas(_, _)
\* the entries of replicas 0..n-1 of a task without a hostname of its own
EntriesOfReplicas(ts, n) ==
    IF n = 0 THEN <<>>
    ELSE EntriesOfReplicas(ts, n - 1)
         \o HostEntry(MakePodName(jobName[PodJob], ts.name, n - 1), EffectiveSubdomain(ts))

\* --------------------------------------------------------------------
\* C12: for every task without a hostname of its own and with R
\* replicas, the config holds, at the task's place in the order of the
\* tasks, exactly R entries, for replicas 0..R-1 in order; entry i maps
\* MakePodName(job, task, i) to that name "." the task's subdomain if
\* it has one, else the job's name.
\* --------------------------------------------------------------------
C12_EntryPerReplica ==
    cfgDone =>
        \A k \in DOMAIN tasks :
            tasks[k].hostname = <<>> =>
                TaskBlockIs(k, EntriesOfReplicas(tasks[k], tasks[k].replicas))

\* a config generated for two tasks, the second without a hostname, with
\* a subdomain and with two replicas
C12_Witness ==
    /\ cfgDone
    /\ Len(tasks) = 2
    /\ tasks[1].replicas > 0
    /\ tasks[2].hostname = <<>>
    /\ tasks[2].subdomain # <<>>
    /\ tasks[2].replicas = 2

\* --------------------------------------------------------------------
\* C13 as claimed: a task with a hostname of its own has exactly one
\* entry in the config whatever its replica count.
\* --------------------------------------------------------------------
C13_OneEntryWhateverReplicas ==
    cfgDone =>
        \A k \in DOMAIN tasks :
            tasks[k].hostname # <<>> =>
                TaskBlockIs(k, HostEntry(tasks[k].hostname, EffectiveSubdomain(tasks[k])))

\* --------------------------------------------------------------------
\* C13, amended: a task with a hostname of its own and at least one
\* replica has exactly one entry in the config, mapping the hostname to
\* the hostname "." the effective subdomain, however many replicas it
\* has; with no replica it has no entry.
\* --------------------------------------------------------------------
C13_OneEntryIfAnyReplica ==
    cfgDone =>
        \A k \in DOMAIN tasks :
            tasks[k].hostname # <<>> =>
                TaskBlockIs(k, IF tasks[k].replicas >= 1
                               THEN HostEntry(tasks[k].hostname,
                                              EffectiveSubdomain(tasks[k]))
                               ELSE <<>>)

\* a config generated for a task with a hostname and two replicas, next
\* to a task with a hostname and none
C13_Witness ==
    /\ cfgDone
    /\ \E k, l \in DOMAIN tasks :
         /\ tasks[k].hostname # <<>> /\ tasks[k].replicas = 2
         /\ tasks[l].hostname # <<>> /\ tasks[l].replicas = 0

NoRootGiven == \E x \in DOMAIN plugArgs : plugArgs[x].flag = "no-root"

PathGiven == \E x \in DOMAIN plugArgs : plugArgs[x].flag = "ssh-key-file-path"

GivenPath ==
    plugArgs[CHOOSE x \in DOMAIN plugArgs : plugArgs[x].flag = "ssh-key-file-path"].value

\* --------------------------------------------------------------------
\* C15 as claimed: the mount path of the built plugin is the given
\* ssh-key-file-path whenever that option is given, else the config-map
\* path if no-root is given, else the root SSH directory.
\* --------------------------------------------------------------------
C15_ExplicitPathWins ==
    plugState = "built" =>
        sshKeyFilePath = IF PathGiven THEN GivenPath
                         ELSE IF NoRootGiven THEN NoRootPath
                         ELSE SSHAbsolutePath

\* --------------------------------------------------------------------
\* C16: the volume of the secret has mode 0600 exactly when the mount
\* path of the plugin is the root SSH directory and 0755 for every
\* other path, whether the path came from no-root or was given.
\* --------------------------------------------------------------------
C16_ModeFollowsPath ==
    \A x \in DOMAIN podVolumes :
        podVolumes[x].name = secretName(PodJob) =>
            /\ podVolumes[x].defaultMode \in {Mode0600, Mode0755}
            /\ podVolumes[x].defaultMode = Mode0600 <=> sshKeyFilePath = SSHAbsolutePath
            /\ podVolumes[x].defaultMode = Mode0755 <=> sshKeyFilePath # SSHAbsolutePath

\* a volume of mode 0755 under a path given without no-root
C16_Witness ==
    /\ podCalls > 0
    /\ ~noRoot
    /\ sshKeyFilePath = CustomPath
    /\ podVolumes[Len(podVolumes)].name = secretName(PodJob)
    /\ podVolumes[Len(podVolumes)].defaultMode = Mode0755

\* --------------------------------------------------------------------
\* C18: OnPodCreate does not need OnJobAdd to have run: on a job without
\* marker and without secret it still returns nil and adds the volume
\* and the mounts naming the absent secret; it never returns an error,
\* never writes the marker and never writes to the store, and what it
\* adds does not depend on the marker.
\* --------------------------------------------------------------------
C18_PodCreateNeedsNoJobAdd ==
    [][podCalls' # podCalls =>
         /\ podRet' = "nil"
         /\ marker' = marker
         /\ secrets' = secrets
         /\ podVolumes' = Append(podVolumes, sshVolume(PodJob))
         /\ \A i \in DOMAIN podMounts :
              podMounts'[i] = Append(podMounts[i], volumeMount(PodJob))
         /\ podVolumes'[Len(podVolumes')].secretName = secretName(PodJob)]_vars

\* OnPodCreate has returned nil on a job without marker and without
\* secret, and the pod's volume and mount name the absent secret
C18_Witness ==
    /\ podCalls = 1
    /\ podRet = "nil"
    /\ marker[PodJob] = <<>>
    /\ secretName(PodJob) \notin secrets
    /\ podVolumes[Len(podVolumes)].secretName = secretName(PodJob)
    /\ Len(podMounts) > 0
    /\ \A i \in DOMAIN podMounts : podMounts[i][Len(podMounts[i])].name = secretName(PodJob)

\* ====================================================================
\* OnJobAdd called concurrently (part_000:77-95): nothing in the plugin
\* orders two calls on the same job
\* ====================================================================

\* the write of the marker at part_000:92 is a write of a Go map with no
\* lock held; while another call on the same job reads the map (78) or
\* writes it (92) the runtime may stop the process ("concurrent map
\* writes", "concurrent map read and map write")
ConcurrentMapFatal(t) ==
    /\ opc[t] = "mark"
    /\ \E u \in Callers \ {t} : ojob[u] = ojob[t] /\ opc[u] \in {"check", "mark"}
    /\ opc' = [u \in Callers |-> "fatal"]
    /\ UNCHANGED <<jobName, jobUID, marker, secrets, ojob, ret, wrote,
                   adds, gens, creates, created, dels>>
    /\ UNCHANGED <<supVars, plugVars>>

\* jobs no hook has seen yet
ConcInit ==
    /\ SSHInit
    /\ \A j1, j2 \in Jobs : jobName[j1] = jobName[j2] /\ jobUID[j1] = jobUID[j2]
    /\ marker = [j \in Jobs |-> <<>>]
    /\ secrets = {}

InitConc == ConcInit /\ SupQuiet /\ PlugQuiet

NextConc ==
    \/ \E t \in Callers, j \in Jobs : OnJobAddBegin(t, j)
    \/ \E t \in Callers : OnJobAddCheck(t)
    \/ \E t \in Callers : OnJobAddGenerate(t)
    \/ \E t \in Callers : OnJobAddCreate(t)
    \/ \E t \in Callers : OnJobAddMark(t)
    \/ \E t \in Callers : ConcurrentMapFatal(t)
    \/ \E t \in Callers, j \in Jobs : OnJobDelete(t, j)

SpecSSHConc == InitConc /\ [][NextConc]_vars

\* --------------------------------------------------------------------
\* C17: no lock surrounds the check and the write of the marker: a call
\* at the check is never held back by another call, it passes the check
\* whenever the marker is unset whatever the other calls are doing, and
\* a call that has passed the check attempts the create without looking
\* at the marker again.  So two concurrent calls on one unmarked job can
\* both pass the check before either sets the marker, and the create is
\* attempted twice.
\* --------------------------------------------------------------------
C17_CheckThenActNotAtomic ==
    /\ [](\A t \in Callers : opc[t] = "check" => ENABLED OnJobAddCheck(t))
    /\ [][\A t \in Callers :
            /\ (opc[t] = "check" /\ marker[ojob[t]] = <<>>
                /\ opc'[t] \notin {"check", "fatal"})
                   => opc'[t] = "generate"
            /\ (opc[t] = "create" /\ opc'[t] \notin {"create", "fatal"})
                   => creates'[ojob[t]] = creates[ojob[t]] + 1]_vars

\* two calls on the same unmarked job are past the check at once: one
\* has created the secret and not yet set the marker, the other is about
\* to attempt the create
C17_Witness ==
    \E t1, t2 \in Callers :
        /\ t1 # t2
        /\ ojob[t1] = ojob[t2]
        /\ marker[ojob[t1]] = <<>>
        /\ opc[t1] = "mark" /\ wrote[t1]
        /\ opc[t2] = "create"
        /\ adds[ojob[t1]] = 2
        /\ creates[ojob[t1]] = 1

\* --------------------------------------------------------------------
\* C19: OnJobDelete deletes the secret of the name OnJobAdd created for
\* the job, which is also the name the volume and the mounts of
\* OnPodCreate carry, deletes nothing else and leaves the marker as it
\* is.  So once OnJobAdd has succeeded the marker stays set, also after
\* OnJobDelete has removed the secret, and a further OnJobAdd returns nil
\* at the check without creating the secret again.
\* --------------------------------------------------------------------
C19_DeleteKeepsMarker ==
    /\ [](\A j \in Jobs :
            /\ sshVolume(j).secretName = secretName(j)
            /\ volumeMount(j).name = secretName(j)
            /\ (created[j] >= 1 /\ AllIdle) => marker[j] = Name)
    /\ [][\A j \in Jobs : dels'[j] # dels[j] =>
            /\ marker' = marker
            /\ secrets' \subseteq secrets
            /\ secrets \ secrets' \subseteq {secretName(j)}
            /\ ret'[SeqCaller] \in {"nil", "errDelete"}
            /\ ret'[SeqCaller] = "nil" => secretName(j) \notin secrets'
            /\ ret'[SeqCaller] = "errDelete" => secrets' = secrets]_vars
    /\ [][\A t \in Callers :
            (/\ opc[t] = "check" /\ opc'[t] # "check"
             /\ created[ojob[t]] >= 1
             /\ secretName(ojob[t]) \notin secrets)
                => /\ opc'[t] = "idle" /\ ret'[t] = "nil"
                   /\ secrets' = secrets /\ marker' = marker
                   /\ gens' = gens /\ creates' = creates]_vars

\* OnJobAdd has created the secret of a job and set its marker,
\* OnJobDelete has removed the secret, and a further OnJobAdd on the job
\* is at its check
C19_Witness ==
    \E t \in Callers :
        /\ opc[t] = "check"
        /\ adds[ojob[t]] = 2 /\ created[ojob[t]] = 1 /\ dels[ojob[t]] = 1
        /\ marker[ojob[t]] = Name
        /\ secretName(ojob[t]) \notin secrets

====
